---- MODULE Spec2Model ----
(***************************************************************************)
(* The workout workflow of gymmando_graph: WorkoutGraph (the LangGraph     *)
(* state graph), WorkoutValidator, WorkoutCRUD (the Store) and the tool    *)
(* call of WorkoutReader, as a state machine.                              *)
(*                                                                         *)
(* An Optional[T] value of the Python code is a sequence of length at most *)
(* one: <<>> is None and <<v>> is the value v.                             *)
(***************************************************************************)
EXTENDS Integers, Sequences, FiniteSets, TLC

VARIABLES
    store,      \* the rows of the "workouts" table, in creation order
    pc,         \* the node of the graph about to run ("idle" before run())
    state,      \* the WorkoutState flowing through the graph
    parsed,     \* the WorkoutParserResponse of this run (<<>> before the parser)
    calls,      \* the WorkoutCRUD calls of this run, in order
    visited,    \* the nodes executed in this run, in order, then "END"
    store0,     \* the table when run() was entered
    script,     \* <<>>, or what the collaborators answer when a request is
                \* repeated, and the response of its first run
    other       \* <<>>, or the request that runs at the same time as this
                \* one, suspended between two of its steps

vars == <<store, pc, state, parsed, calls, visited, store0, script, other>>

----------------------------------------------------------------------------
(* Bounds of the model *)

\* number of rows in the table when the run starts
MaxRecords == 2

----------------------------------------------------------------------------
(* Value domains *)

None == <<>>

Some(v) == <<v>>

Owners == {"A", "B"}

\* WorkoutState.intent: unset, "get", "put", "delete", or any other string
Intents == {None, Some("get"), Some("put"), Some("delete"), Some("chat")}

UserInputs == {"utterance"}

\* identifiers the table hands out, in the order it hands them out
UUIDPool == <<"R1", "R2", "R3", "R4", "R5", "R6">>

\* a well-formed identifier that no row ever has
UnknownUUID == "R0"

\* a workout_id that uuid.UUID() rejects
MalformedId == "not-a-uuid"

\* IsUUID accepting every string
IsUUID_mut(s) == TRUE

\* uuid.UUID(s) returns: s is a well-formed identifier
IsUUID(s) == s = UnknownUUID \/ \E i \in 1..Len(UUIDPool) : UUIDPool[i] = s

\* Python truthiness of an Optional[str]
TruthyStr(o) == o # None /\ o[1] # ""

\* Python truthiness of an Optional[int]
TruthyInt(o) == o # None /\ o[1] # 0

ExerciseValues == {None, Some(""), Some("squats")}
SetsValues == {None, Some(0), Some(3)}
RepsValues == {None, Some(10)}
WeightValues == {None, Some("135 lbs")}
RestTimeValues == {None, Some(60)}
CommentsValues == {None, Some("felt strong")}

----------------------------------------------------------------------------
(* Sequences *)

RECURSIVE Reverse(_)
Reverse(s) == IF s = <<>> THEN <<>> ELSE Append(Reverse(Tail(s)), Head(s))

Take(s, n) == IF Len(s) <= n THEN s ELSE SubSeq(s, 1, n)

Range(s) == {s[i] : i \in 1..Len(s)}

RECURSIVE Count(_, _)
Count(s, x) ==
    IF s = <<>> THEN 0
    ELSE (IF Head(s) = x THEN 1 ELSE 0) + Count(Tail(s), x)

----------------------------------------------------------------------------
(* database/models.py and schemas *)

\* a row of the workouts table
WorkoutDBModel(id, user_id, exercise, sets, reps, weight, rest_time, comments, created_at) ==
    [id |-> id, user_id |-> user_id, exercise |-> exercise, sets |-> sets,
     reps |-> reps, weight |-> weight, rest_time |-> rest_time,
     comments |-> comments, created_at |-> created_at]

\* the user-facing message: kind names the message template; text is the
\* exception text, names the field names, echo the exercise, sets, reps and
\* weight, and recs the rows formatted into it
Response(kind, text, names, echo, recs) ==
    [kind |-> kind, text |-> text, names |-> names, echo |-> echo, recs |-> recs]

\* response: str = ""
EmptyResponse == Response("", "", <<>>, <<>>, <<>>)

Message(kind) == Response(kind, "", <<>>, <<>>, <<>>)

\* WorkoutState(user_input=..., user_id=..., intent=...) with its defaults
WorkoutState(user_input, user_id, intent) ==
    [user_input |-> user_input, user_id |-> user_id, intent |-> intent,
     exercise |-> None, sets |-> None, reps |-> None, weight |-> None,
     rest_time |-> None, comments |-> None, workout_id |-> None,
     validation_status |-> None, missing_fields |-> <<>>,
     response |-> EmptyResponse]

\* a WorkoutParserResponse
WorkoutParserResponse(exercise, sets, reps, weight, rest_time, comments, workout_id) ==
    [exercise |-> exercise, sets |-> sets, reps |-> reps, weight |-> weight,
     rest_time |-> rest_time, comments |-> comments, workout_id |-> workout_id]

\* what WorkoutParser.process can return against the table st
ParserResponses(st) ==
    {WorkoutParserResponse(e, s, r, w, t, c, i) :
        e \in ExerciseValues, s \in SetsValues, r \in RepsValues,
        w \in WeightValues, t \in RestTimeValues, c \in CommentsValues,
        i \in {None, Some(""), Some(MalformedId), Some(UnknownUUID)}
              \cup {Some(st[k].id) : k \in 1..Len(st)}}

----------------------------------------------------------------------------
(* The record of a WorkoutCRUD call *)

\* the data of a call: keys are the columns the call writes, each with the
\* value it writes
NoData ==
    [keys |-> {}, exercise |-> None, sets |-> None, reps |-> None,
     weight |-> None, rest_time |-> None, comments |-> None]

\* outcome: "ok", or "error" when the Supabase call raised, "nodata" when
\* an insert returned no row, "rejected" when create refused the fields
Call(op, user_id, workout_id, data, outcome) ==
    [op |-> op, user_id |-> user_id, workout_id |-> workout_id, data |-> data,
     outcome |-> outcome]

----------------------------------------------------------------------------
(* modules/workout/crud.py: WorkoutCRUD over the workouts table *)

\* .ilike("exercise", f"%{exercise}%"): over the exercise names of the model
\* no name contains another, so the pattern matches a row exactly when the
\* names are equal
ILike(stored, pattern) == stored = Some(pattern)

\* desc_order ordering oldest first whatever the direction
desc_order_mut(order_direction) == FALSE

\* desc_order of WorkoutCRUD.query: (order_direction or "desc").lower() == "desc"
desc_order(order_direction) ==
    IF TruthyStr(order_direction) THEN order_direction[1] = "desc" ELSE TRUE

\* WorkoutCRUD.query: ok is FALSE when the Supabase call raises, and the
\* method then returns [] instead of raising
crud_query(st, user_id, exercise, start_date, end_date, limit, order_direction, ok) ==
    IF ~ok THEN <<>>
    ELSE
        LET matches(r) ==
                /\ r.user_id = user_id
                /\ TruthyStr(exercise) => ILike(r.exercise, exercise[1])
                /\ TruthyInt(start_date) => r.created_at >= start_date[1]
                /\ TruthyInt(end_date) => r.created_at <= end_date[1]
            rows == SelectSeq(st, matches)
            ordered == IF desc_order(order_direction) THEN Reverse(rows) ELSE rows
        IN  IF TruthyInt(limit) THEN Take(ordered, limit[1]) ELSE ordered

\* the first check of WorkoutCRUD.create
create_missing_required(s) ==
    \/ ~TruthyStr(s.exercise)
    \/ ~TruthyInt(s.sets)
    \/ ~TruthyInt(s.reps)
    \/ ~TruthyStr(s.weight)

\* WorkoutCRUD.create: outcome is "ok" (the insert returns the row),
\* "nodata" (the insert returns no row) or "error" (the insert raises).
\* raised names the exception that leaves the method, "" when none does.
\* The table numbers its rows in creation order; a run that creates a row
\* has deleted none before.
crud_create(st, s, outcome) ==
    IF create_missing_required(s)
    THEN [raised |-> "ValueError", row |-> None, store |-> st]
    ELSE IF outcome = "error"
    THEN [raised |-> "Exception", row |-> None, store |-> st]
    ELSE IF outcome = "nodata"
    THEN [raised |-> "", row |-> None, store |-> st]
    ELSE
        LET n == Len(st) + 1
            row == WorkoutDBModel(UUIDPool[n], s.user_id, s.exercise, s.sets,
                                  s.reps, s.weight, s.rest_time, s.comments, n)
        IN  [raised |-> "", row |-> Some(row), store |-> Append(st, row)]

\* .update(data) on one row: the columns named in data take data's values
apply_update(r, data) ==
    [r EXCEPT
        !.exercise = IF "exercise" \in data.keys THEN data.exercise ELSE @,
        !.sets = IF "sets" \in data.keys THEN data.sets ELSE @,
        !.reps = IF "reps" \in data.keys THEN data.reps ELSE @,
        !.weight = IF "weight" \in data.keys THEN data.weight ELSE @,
        !.rest_time = IF "rest_time" \in data.keys THEN data.rest_time ELSE @,
        !.comments = IF "comments" \in data.keys THEN data.comments ELSE @]

\* crud_update without .eq("user_id", user_id)
crud_update_mut(st, workout_id, user_id, data, ok) ==
    LET hit(r) == r.id = workout_id
        st2 == [i \in 1..Len(st) |->
                    IF hit(st[i]) THEN apply_update(st[i], data) ELSE st[i]]
        rows == SelectSeq(st2, hit)
    IN  IF ~ok THEN [row |-> None, store |-> st]
        ELSE IF rows = <<>> THEN [row |-> None, store |-> st]
        ELSE [row |-> Some(rows[1]), store |-> st2]

\* WorkoutCRUD.update: the rows with this id and this user_id are updated;
\* the method returns the first updated row, or None when none matched or
\* the Supabase call raised (ok = FALSE)
crud_update(st, workout_id, user_id, data, ok) ==
    LET hit(r) == r.id = workout_id /\ r.user_id = user_id
        st2 == [i \in 1..Len(st) |->
                    IF hit(st[i]) THEN apply_update(st[i], data) ELSE st[i]]
        rows == SelectSeq(st2, hit)
    IN  IF ~ok THEN [row |-> None, store |-> st]
        ELSE IF rows = <<>> THEN [row |-> None, store |-> st]
        ELSE [row |-> Some(rows[1]), store |-> st2]

\* crud_delete answering False when no row matched
crud_delete_mut(st, workout_id, user_id, ok) ==
    LET keep(r) == ~(r.id = workout_id /\ r.user_id = user_id)
    IN  IF ~ok THEN [success |-> FALSE, store |-> st]
        ELSE [success |-> SelectSeq(st, keep) # st, store |-> SelectSeq(st, keep)]

\* WorkoutCRUD.delete: the rows with this id and this user_id are removed;
\* True unless the Supabase call raised (ok = FALSE)
crud_delete(st, workout_id, user_id, ok) ==
    LET keep(r) == ~(r.id = workout_id /\ r.user_id = user_id)
    IN  IF ~ok THEN [success |-> FALSE, store |-> st]
        ELSE [success |-> TRUE, store |-> SelectSeq(st, keep)]

----------------------------------------------------------------------------
(* modules/workout/nodes/workout_validator.py *)

REQUIRED_FIELDS == <<"exercise", "sets", "reps", "weight">>

\* field_missing testing only "value is None"
field_missing_mut(s, field) ==
    CASE field = "exercise" -> s.exercise = None
      [] field = "sets" -> s.sets = None
      [] field = "reps" -> s.reps = None
      [] field = "weight" -> s.weight = None

\* value is None or value == "": an int is never equal to ""
field_missing(s, field) ==
    CASE field = "exercise" -> s.exercise = None \/ s.exercise = Some("")
      [] field = "sets" -> s.sets = None
      [] field = "reps" -> s.reps = None
      [] field = "weight" -> s.weight = None \/ s.weight = Some("")

RECURSIVE missing_from(_, _)
missing_from(s, fields) ==
    IF fields = <<>> THEN <<>>
    ELSE (IF field_missing(s, Head(fields)) THEN <<Head(fields)>> ELSE <<>>)
         \o missing_from(s, Tail(fields))

\* validate appending to the missing_fields the state already holds
validate_mut(s) ==
    LET missing_fields == s.missing_fields \o missing_from(s, REQUIRED_FIELDS)
    IN  [s EXCEPT
            !.validation_status =
                IF missing_fields = <<>> THEN Some("complete") ELSE Some("incomplete"),
            !.missing_fields = missing_fields]

\* WorkoutValidator.validate
validate(s) ==
    LET missing_fields == missing_from(s, REQUIRED_FIELDS)
    IN  [s EXCEPT
            !.validation_status =
                IF missing_fields = <<>> THEN Some("complete") ELSE Some("incomplete"),
            !.missing_fields = missing_fields]

----------------------------------------------------------------------------
(* modules/workout/workout_graph.py: the conditional edges *)

\* route_by_intent sending every "put" to the updator
route_by_intent_mut(s) ==
    IF s.intent = Some("get") THEN "workout_reader"
    ELSE IF s.intent = Some("delete") THEN "workout_deletor"
    ELSE IF s.intent = Some("put") THEN "workout_updator"
    ELSE "workout_validator"

\* WorkoutGraph._route_by_intent, with the node each key is mapped to
route_by_intent(s) ==
    IF s.intent = Some("get") THEN "workout_reader"
    ELSE IF s.intent = Some("delete") THEN "workout_deletor"
    ELSE IF s.intent = Some("put") /\ TruthyStr(s.workout_id) THEN "workout_updator"
    ELSE "workout_validator"

\* should_save_to_database sending an incomplete workout back to the parser
should_save_to_database_retry(s) ==
    IF s.intent = Some("put") /\ s.validation_status = Some("complete")
    THEN "workout_saver"
    ELSE "workout_parser"

\* should_save_to_database saving whatever the verdict
should_save_to_database_always(s) == "workout_saver"

\* should_save_to_database without the test of the intent
should_save_to_database_mut(s) ==
    IF s.validation_status = Some("complete") THEN "workout_saver" ELSE "END"

\* WorkoutGraph._should_save_to_database, with the node each key is mapped to
should_save_to_database(s) ==
    IF s.intent = Some("put") /\ s.validation_status = Some("complete")
    THEN "workout_saver"
    ELSE "END"

----------------------------------------------------------------------------
(* modules/workout/workout_graph.py: run() and the nodes *)

\* the states run() is called with: a fresh WorkoutState, or the result of
\* earlier runs reused, as the __main__ loop does.  The reused state is the
\* one left by a "put" that named only the exercise (validator: incomplete)
\* followed by a "get" that asked for the owner's newest row.
InputStates(st) ==
    LET newest(o) == crud_query(st, o, None, None, None, Some(1), Some("desc"), TRUE)
    IN  {WorkoutState(u, o, i) : u \in UserInputs, o \in Owners, i \in Intents}
        \cup
        {[WorkoutState(u, o, i) EXCEPT
            !.validation_status = Some("incomplete"),
            !.missing_fields = <<"sets", "reps", "weight">>,
            !.workout_id = IF newest(o) = <<>> THEN None ELSE Some(newest(o)[1].id),
            !.response = Response("workouts_json", "", <<>>, <<>>, newest(o))] :
            u \in UserInputs, o \in Owners, i \in Intents}

\* WorkoutGraph.run up to graph.invoke: START -> workout_parser
StartRun ==
    /\ pc = "idle"
    /\ \E s \in InputStates(store) : state' = s
    /\ pc' = "workout_parser"
    /\ parsed' = None
    /\ calls' = <<>>
    /\ visited' = <<>>
    /\ store0' = store
    /\ UNCHANGED <<store, script, other>>

\* should_get_recent without the test of sets, reps and weight
should_get_recent_mut(s) ==
    /\ s.intent \in {Some("put"), Some("delete")}
    /\ ~TruthyStr(s.workout_id)

\* the fallback of _workout_parser_node is attempted
should_get_recent(s) ==
    /\ s.intent \in {Some("put"), Some("delete")}
    /\ ~TruthyStr(s.workout_id)
    /\ \/ s.intent = Some("delete")
       \/ /\ s.intent = Some("put")
          /\ (s.sets # None \/ s.reps # None \/ s.weight # None)

\* what WorkoutParser.process returns in this run: anything it can return,
\* or the scripted answer when the request is repeated
ParserChoices(st) ==
    IF script = None THEN ParserResponses(st) ELSE {script[1].parsed}

\* whether the Supabase call of the fallback query succeeds in this run
FallbackChoices == IF script = None THEN BOOLEAN ELSE {script[1].query_ok}

\* parsed_workout_data leaving the workout_id of the state as it was
parsed_workout_data_keep_id(s, parsed_result) ==
    [s EXCEPT
        !.exercise = parsed_result.exercise,
        !.sets = parsed_result.sets,
        !.reps = parsed_result.reps,
        !.weight = parsed_result.weight,
        !.rest_time = parsed_result.rest_time,
        !.comments = parsed_result.comments]

\* parsed_workout_data also taking the intent from the parser: a request
\* that names fields becomes a "put"
parsed_workout_data_intent(s, parsed_result) ==
    [s EXCEPT
        !.intent = IF parsed_result.sets # None THEN Some("put") ELSE @,
        !.exercise = parsed_result.exercise,
        !.sets = parsed_result.sets,
        !.reps = parsed_result.reps,
        !.weight = parsed_result.weight,
        !.rest_time = parsed_result.rest_time,
        !.comments = parsed_result.comments,
        !.workout_id = parsed_result.workout_id]

\* parsed_workout_data also clearing the verdict of an earlier run
parsed_workout_data_reset(s, parsed_result) ==
    [s EXCEPT
        !.exercise = parsed_result.exercise,
        !.sets = parsed_result.sets,
        !.reps = parsed_result.reps,
        !.weight = parsed_result.weight,
        !.rest_time = parsed_result.rest_time,
        !.comments = parsed_result.comments,
        !.workout_id = parsed_result.workout_id,
        !.validation_status = None,
        !.missing_fields = <<>>]

\* "Update state with parsed workout data": the seven assignments of
\* _workout_parser_node
parsed_workout_data(s, parsed_result) ==
    [s EXCEPT
        !.exercise = parsed_result.exercise,
        !.sets = parsed_result.sets,
        !.reps = parsed_result.reps,
        !.weight = parsed_result.weight,
        !.rest_time = parsed_result.rest_time,
        !.comments = parsed_result.comments,
        !.workout_id = parsed_result.workout_id]

\* recent_workouts asking for the oldest row
recent_workouts_mut(st, user_id, ok) ==
    crud_query(st, user_id, None, None, None, Some(1), Some("asc"), ok)

\* the fallback query of _workout_parser_node:
\* query(user_id, limit=1, order_by="created_at", order_direction="desc")
recent_workouts(st, user_id, ok) ==
    crud_query(st, user_id, None, None, None, Some(1), Some("desc"), ok)

\* process_raised with the exception swallowed and the run going on
process_raised_mut == "workout_validator"

\* where control goes when WorkoutParser.process raises: the call is not
\* inside a try, so the exception leaves the node, graph.invoke and run()
process_raised == "raised"

\* WorkoutGraph._workout_parser_node and the edge out of it
workout_parser_node ==
    /\ pc = "workout_parser"
    /\ \/ \* WorkoutParser.process raises
          /\ pc' = process_raised
          /\ visited' = Append(visited, "workout_parser")
          /\ UNCHANGED <<store, state, parsed, calls, store0, script, other>>
       \/ \E parsed_result \in ParserChoices(store), ok \in FallbackChoices :
            LET s1 == parsed_workout_data(state, parsed_result)
                recent == recent_workouts(store, s1.user_id, ok)
                s2 == IF should_get_recent(s1) /\ Len(recent) > 0
                      THEN [s1 EXCEPT !.workout_id = Some(recent[1].id)]
                      ELSE s1
            IN  /\ should_get_recent(s1) \/ ok
                /\ state' = s2
                /\ parsed' = Some(parsed_result)
                /\ calls' = IF should_get_recent(s1)
                            THEN Append(calls, Call("query", s1.user_id, None, NoData,
                                                    IF ok THEN "ok" ELSE "error"))
                            ELSE calls
                /\ pc' = route_by_intent(s2)
                /\ visited' = Append(visited, "workout_parser")
                /\ UNCHANGED <<store, store0, script, other>>

\* WorkoutReader.retrieve: what the LLM answers.  "fail": the call raises;
\* "text": no tool call, the content is prose; "tool": a query_workouts call
\* with the arguments the LLM chose
NoArgs ==
    [exercise |-> None, start_date |-> None, end_date |-> None,
     limit |-> None, order_direction |-> None]

ReaderToolArgs ==
    {[NoArgs EXCEPT !.exercise = e, !.limit = l, !.order_direction = d] :
        e \in {None, Some("squats")}, l \in {Some(1), Some(10)},
        d \in {Some("desc"), Some("asc")}}
    \cup
    {[NoArgs EXCEPT !.start_date = Some(2), !.limit = Some(10)],
     [NoArgs EXCEPT !.end_date = Some(1), !.limit = Some(10)]}

\* a text that nests more arrays than the interpreter allows calls
DeepNesting == "[[[[[[ ... 2000 deep ... ]]]]]]"

\* response.content when the LLM calls no tool: prose, or a JSON text of
\* any shape
LLMContents ==
    {"You have no workouts yet.",
     "{\"error\": \"no data\"}",
     "[]",
     "[{\"exercise\": \"squats\"}]",
     "[7]",
     "[{\"id\": \"R0\"}]",
     DeepNesting}

ReaderOutcomes ==
    {[kind |-> "fail", user_id |-> "A", args |-> NoArgs, content |-> ""]}
    \cup
    {[kind |-> "text", user_id |-> "A", args |-> NoArgs, content |-> c] :
        c \in LLMContents}
    \cup
    {[kind |-> "tool", user_id |-> o, args |-> a, content |-> ""] :
        o \in Owners, a \in ReaderToolArgs}

\* what the LLM of WorkoutReader answers in this run, and whether the
\* Supabase call of its query succeeds: anything, or the scripted answer
\* when the request is repeated
ReaderChoices ==
    IF script = None THEN ReaderOutcomes \X BOOLEAN
    ELSE {<<script[1].llm, script[1].read_ok>>}

\* reader_response adding the rows to those of the response the state holds
reader_response_mut(s, workouts) ==
    Response("workouts_json", "", <<>>, <<>>, s.response.recs \o workouts)

\* state.response = result, for the result of the query_workouts tool
reader_response(s, workouts) ==
    Response("workouts_json", "", <<>>, <<>>, workouts)

\* stored_workout_id clearing the workout_id when the result is empty
stored_workout_id_mut(s, workouts) ==
    IF Len(workouts) > 0 THEN Some(workouts[1].id) ELSE None

\* the workout_id of the state after _workout_reader_node parsed the result
\* of the tool: the id of the first row when there is one
stored_workout_id(s, workouts) ==
    IF Len(workouts) > 0 THEN Some(workouts[1].id) ELSE s.workout_id

\* json.loads on the texts of LLMContents.  raised is the exception, "" when
\* the text is parsed; type is the type of the value, len its length and
\* first its first element when it is a list: the type of the element, its
\* keys when it is a dict, and the value under "id"
NoElement == [type |-> "", keys |-> {}, id |-> ""]

json_loads(text) ==
    CASE text = "[]" ->
            [raised |-> "", type |-> "list", len |-> 0, first |-> NoElement]
      [] text = "{\"error\": \"no data\"}" ->
            [raised |-> "", type |-> "dict", len |-> 1, first |-> NoElement]
      [] text = "[{\"exercise\": \"squats\"}]" ->
            [raised |-> "", type |-> "list", len |-> 1,
             first |-> [type |-> "dict", keys |-> {"exercise"}, id |-> ""]]
      [] text = "[7]" ->
            [raised |-> "", type |-> "list", len |-> 1,
             first |-> [type |-> "int", keys |-> {}, id |-> ""]]
      [] text = "[{\"id\": \"R0\"}]" ->
            [raised |-> "", type |-> "list", len |-> 1,
             first |-> [type |-> "dict", keys |-> {"id"}, id |-> "R0"]]
      [] text = DeepNesting ->
            [raised |-> "RecursionError", type |-> "", len |-> 0, first |-> NoElement]
      [] OTHER ->
            [raised |-> "JSONDecodeError", type |-> "", len |-> 0, first |-> NoElement]

\* the exception that leaves the inner try of _workout_reader_node, "" when
\* none does: JSONDecodeError, KeyError and TypeError are caught there
hint_raised(result) ==
    IF json_loads(result).raised \in {"", "JSONDecodeError", "KeyError", "TypeError"}
    THEN ""
    ELSE json_loads(result).raised

\* the workout_id of the state after the inner try of _workout_reader_node
\* on the text result: the "id" of the first element of a non-empty list
\* when that element is a dict with this key; "id" in first_workout of an
\* element that is no container is a TypeError
hinted_workout_id(s, result) ==
    LET data == json_loads(result)
    IN  IF data.raised # "" THEN s.workout_id
        ELSE IF data.len > 0 /\ data.type = "list"
        THEN IF data.first.type = "dict" /\ "id" \in data.first.keys
             THEN Some(data.first.id)
             ELSE s.workout_id
        ELSE s.workout_id

\* tool_user_id keeping the user_id the LLM put in the tool call
tool_user_id_mut(llm_user_id, user_id) == llm_user_id

\* the user_id the tool is called with: tool_args["user_id"] = user_id
tool_user_id(llm_user_id, user_id) == user_id

\* WorkoutGraph._workout_reader_node, with WorkoutReader.retrieve and
\* _query_workouts_impl, and the edge to END
workout_reader_node ==
    /\ pc = "workout_reader"
    /\ \E choice \in ReaderChoices :
        LET llm == choice[1]
            ok == choice[2]
            uid == tool_user_id(llm.user_id, state.user_id)
            workouts == crud_query(store, uid, llm.args.exercise,
                                   llm.args.start_date, llm.args.end_date,
                                   llm.args.limit, llm.args.order_direction, ok)
        IN  /\ llm.kind = "tool" \/ ok
            /\ state' =
                CASE llm.kind = "fail" ->
                        [state EXCEPT !.response = Message("read_error")]
                  [] llm.kind = "text" ->
                        IF hint_raised(llm.content) # ""
                        THEN [state EXCEPT !.response = Message("read_error")]
                        ELSE [state EXCEPT
                                !.response = Response("llm_text", llm.content,
                                                      <<>>, <<>>, <<>>),
                                !.workout_id = hinted_workout_id(state, llm.content)]
                  [] llm.kind = "tool" ->
                        [state EXCEPT
                            !.response = reader_response(state, workouts),
                            !.workout_id = stored_workout_id(state, workouts)]
            /\ calls' = IF llm.kind = "tool"
                        THEN Append(calls, Call("query", uid, None, NoData,
                                                IF ok THEN "ok" ELSE "error"))
                        ELSE calls
    /\ pc' = "END"
    /\ visited' = visited \o <<"workout_reader", "END">>
    /\ UNCHANGED <<store, parsed, store0, script, other>>

\* WorkoutGraph._workout_validator_node and the edge out of it
workout_validator_node ==
    /\ pc = "workout_validator"
    /\ state' = validate(state)
    /\ pc' = should_save_to_database(state')
    /\ visited' = IF pc' = "END"
                  THEN visited \o <<"workout_validator", "END">>
                  ELSE Append(visited, "workout_validator")
    /\ UNCHANGED <<store, parsed, calls, store0, script, other>>

\* the fields of the state that WorkoutCRUD.create inserts
create_data(s) ==
    [keys |-> {"exercise", "sets", "reps", "weight"}
              \cup (IF s.rest_time # None THEN {"rest_time"} ELSE {})
              \cup (IF s.comments # None THEN {"comments"} ELSE {}),
     exercise |-> s.exercise, sets |-> s.sets, reps |-> s.reps,
     weight |-> s.weight, rest_time |-> s.rest_time, comments |-> s.comments]

\* saved_response with sets and reps exchanged
saved_response_mut(s) ==
    Response("saved", "", <<>>, <<s.exercise, s.reps, s.sets, s.weight>>, <<>>)

\* f"Workout saved! {state.exercise}: {state.sets}x{state.reps} @ {state.weight}"
saved_response(s) ==
    Response("saved", "", <<>>, <<s.exercise, s.sets, s.reps, s.weight>>, <<>>)

\* WorkoutGraph._workout_saver_node and the edge to END
workout_saver_node ==
    /\ pc = "workout_saver"
    /\ \E outcome \in {"ok", "nodata", "error"} :
        LET saved == crud_create(store, state, outcome)
        IN  /\ outcome = "ok" \/ ~create_missing_required(state)
            /\ store' = saved.store
            /\ calls' = Append(calls,
                    Call("create", state.user_id, None, create_data(state),
                         IF saved.raised = "ValueError" THEN "rejected" ELSE outcome))
            /\ state' =
                IF saved.raised = "ValueError"
                THEN [state EXCEPT !.response =
                        Response("cannot_save",
                                 "Cannot create workout: missing required fields",
                                 <<>>, <<>>, <<>>)]
                ELSE IF saved.raised = "Exception"
                THEN [state EXCEPT !.response = Message("save_error")]
                ELSE IF saved.row # None
                THEN [state EXCEPT !.response = saved_response(state)]
                ELSE [state EXCEPT !.response = Message("save_failed")]
    /\ pc' = "END"
    /\ visited' = visited \o <<"workout_saver", "END">>
    /\ UNCHANGED <<parsed, store0, script, other>>

\* update_data sending all six columns, None included
update_data_mut(s) ==
    [keys |-> {"exercise", "sets", "reps", "weight", "rest_time", "comments"},
     exercise |-> s.exercise, sets |-> s.sets, reps |-> s.reps,
     weight |-> s.weight, rest_time |-> s.rest_time, comments |-> s.comments]

\* update_data of _workout_updator_node: the fields of the state that are
\* not None
update_data(s) ==
    [keys |-> (IF s.exercise # None THEN {"exercise"} ELSE {})
              \cup (IF s.sets # None THEN {"sets"} ELSE {})
              \cup (IF s.reps # None THEN {"reps"} ELSE {})
              \cup (IF s.weight # None THEN {"weight"} ELSE {})
              \cup (IF s.rest_time # None THEN {"rest_time"} ELSE {})
              \cup (IF s.comments # None THEN {"comments"} ELSE {}),
     exercise |-> s.exercise, sets |-> s.sets, reps |-> s.reps,
     weight |-> s.weight, rest_time |-> s.rest_time, comments |-> s.comments]

\* no_update_data never rejecting
no_update_data_mut(data) == FALSE

\* the guard "if not update_data" of _workout_updator_node
no_update_data(data) == data.keys = {}

\* CHANGE_ORDER in the order update_data is built
CHANGE_ORDER_mut == <<"exercise", "sets", "reps", "weight", "rest_time", "comments">>

\* the order in which _workout_updator_node reports the changed fields
CHANGE_ORDER == <<"sets", "reps", "weight", "exercise", "rest_time", "comments">>

\* changes of _workout_updator_node
changes(data) == SelectSeq(CHANGE_ORDER, LAMBDA f : f \in data.keys)

\* WorkoutGraph._workout_updator_node and the edge to END
workout_updator_node ==
    /\ pc = "workout_updator"
    /\ \E ok \in BOOLEAN :
        LET data == update_data(state)
            called == /\ TruthyStr(state.workout_id)
                      /\ ~no_update_data(data)
                      /\ IsUUID(state.workout_id[1])
            updated == crud_update(store, state.workout_id[1], state.user_id, data, ok)
        IN  /\ called \/ ok
            /\ IF ~TruthyStr(state.workout_id)
               THEN /\ state' = [state EXCEPT !.response = Message("update_id_required")]
                    /\ UNCHANGED <<store, calls>>
               ELSE IF no_update_data(data)
               THEN /\ state' = [state EXCEPT !.response = Message("update_no_fields")]
                    /\ UNCHANGED <<store, calls>>
               ELSE IF ~IsUUID(state.workout_id[1])
               THEN /\ state' = [state EXCEPT !.response =
                            Response("cannot_update",
                                     "badly formed hexadecimal UUID string",
                                     <<>>, <<>>, <<>>)]
                    /\ UNCHANGED <<store, calls>>
               ELSE /\ calls' = Append(calls, Call("update", state.user_id,
                                                   state.workout_id, data,
                                                   IF ok THEN "ok" ELSE "error"))
                    /\ store' = updated.store
                    /\ state' =
                        IF updated.row # None
                        THEN [state EXCEPT !.response =
                                Response("updated", "", changes(data),
                                         <<updated.row[1].exercise, updated.row[1].sets,
                                           updated.row[1].reps, updated.row[1].weight>>,
                                         <<>>)]
                        ELSE [state EXCEPT !.response = Message("update_not_found")]
    /\ pc' = "END"
    /\ visited' = visited \o <<"workout_updator", "END">>
    /\ UNCHANGED <<parsed, store0, script, other>>

\* delete_id_missing testing "is None" instead of "not"
delete_id_missing_mut(s) == s.workout_id = None

\* the guard of _workout_deletor_node: not state.workout_id
delete_id_missing(s) == ~TruthyStr(s.workout_id)

\* WorkoutGraph._workout_deletor_node and the edge to END
workout_deletor_node ==
    /\ pc = "workout_deletor"
    /\ \E ok \in BOOLEAN :
        LET called == ~delete_id_missing(state) /\ IsUUID(state.workout_id[1])
            deleted == crud_delete(store, state.workout_id[1], state.user_id, ok)
        IN  /\ called \/ ok
            /\ IF delete_id_missing(state)
               THEN /\ state' = [state EXCEPT !.response = Message("delete_id_required")]
                    /\ UNCHANGED <<store, calls>>
               ELSE IF ~IsUUID(state.workout_id[1])
               THEN /\ state' = [state EXCEPT !.response =
                            Response("cannot_delete",
                                     "badly formed hexadecimal UUID string",
                                     <<>>, <<>>, <<>>)]
                    /\ UNCHANGED <<store, calls>>
               ELSE /\ calls' = Append(calls, Call("delete", state.user_id,
                                                   state.workout_id, NoData,
                                                   IF ok THEN "ok" ELSE "error"))
                    /\ store' = deleted.store
                    /\ state' =
                        IF deleted.success
                        THEN [state EXCEPT !.response = Message("deleted")]
                        ELSE [state EXCEPT !.response = Message("delete_failed")]
    /\ pc' = "END"
    /\ visited' = visited \o <<"workout_deletor", "END">>
    /\ UNCHANGED <<parsed, store0, script, other>>

----------------------------------------------------------------------------
(* The specification *)

\* the row the table holds at position i when the run starts
InitialRow(i, owner) ==
    WorkoutDBModel(UUIDPool[i], owner,
                   IF i % 2 = 1 THEN Some("squats") ELSE Some("lunges"),
                   Some(3), Some(10), Some("135 lbs"), None, None, i)

InitialStores ==
    UNION {{[i \in 1..n |-> InitialRow(i, owner[i])] : owner \in [1..n -> Owners]} :
            n \in 0..MaxRecords}

Init ==
    /\ store \in InitialStores
    /\ pc = "idle"
    /\ state = WorkoutState("", "A", None)
    /\ parsed = None
    /\ calls = <<>>
    /\ visited = <<>>
    /\ store0 = store
    /\ script = None
    /\ other = None

Next ==
    \/ StartRun
    \/ workout_parser_node
    \/ workout_reader_node
    \/ workout_validator_node
    \/ workout_saver_node
    \/ workout_updator_node
    \/ workout_deletor_node

Spec == Init /\ [][Next]_vars

\* WorkoutValidator.validate on its own: the states the validator node can
\* be entered with.  getattr(state, field) reads exercise, sets, reps and
\* weight, each None, empty or zero, or a value; the state may still hold
\* the validation_status and missing_fields of an earlier run.
ValidatorInputs ==
    {[WorkoutState(u, "A", i) EXCEPT
        !.exercise = e, !.sets = s, !.reps = r, !.weight = w,
        !.validation_status = v[1], !.missing_fields = v[2]] :
        u \in UserInputs, i \in Intents,
        e \in {None, Some(""), Some("squats")},
        s \in {None, Some(0), Some(3)},
        r \in {None, Some(0), Some(10)},
        w \in {None, Some(""), Some("135 lbs")},
        v \in {<<None, <<>>>>,
               <<Some("complete"), <<>>>>,
               <<Some("incomplete"), <<"sets", "reps", "weight">>>>,
               <<Some("incomplete"), <<"weight", "exercise">>>>}}

ValidatorInit ==
    /\ store = <<>>
    /\ store0 = <<>>
    /\ script = None
    /\ other = None
    /\ pc = "workout_validator"
    /\ state \in ValidatorInputs
    /\ parsed = Some(WorkoutParserResponse(state.exercise, state.sets, state.reps,
                                           state.weight, None, None, None))
    /\ calls = <<>>
    /\ visited = <<"workout_parser">>

ValidatorNext == workout_validator_node

ValidatorSpec == ValidatorInit /\ [][ValidatorNext]_vars

\* A read request made twice.  The answers of the collaborators are fixed
\* when the first run starts, so that both runs get the same ones: parsed
\* is what WorkoutParser.process returns, llm what the LLM of the reader
\* answers, read_ok whether the Supabase call of its query succeeds; first
\* is the response of the first run, <<>> until that run has ended.
ScriptParsed(st) ==
    {p \in ParserResponses(st) :
        /\ p.sets = None /\ p.reps = None /\ p.weight = None
        /\ p.rest_time = None /\ p.comments = None
        /\ p.exercise # Some("")
        /\ p.workout_id \notin {Some(""), Some(MalformedId)}}

Scripts(st) ==
    {[parsed |-> p, query_ok |-> TRUE, llm |-> c[1], read_ok |-> c[2], first |-> None] :
        p \in ScriptParsed(st),
        c \in {d \in ReaderOutcomes \X BOOLEAN : d[1].kind = "tool" \/ d[2]}}

\* run() is entered with a "get" request, fresh or reused
RepeatInit ==
    /\ store \in InitialStores
    /\ store0 = store
    /\ script \in {Some(x) : x \in Scripts(store)}
    /\ other = None
    /\ pc = "workout_parser"
    /\ state \in {s \in InputStates(store) : s.intent = Some("get")}
    /\ parsed = None
    /\ calls = <<>>
    /\ visited = <<>>

\* the same request is made again, as the __main__ loop does with the
\* state the first run returned, or with a fresh WorkoutState
RunAgain ==
    /\ pc = "END"
    /\ script # None
    /\ script[1].first = None
    /\ script' = Some([script[1] EXCEPT !.first = Some(state.response)])
    /\ state' \in {state, WorkoutState(state.user_input, state.user_id, state.intent)}
    /\ pc' = "workout_parser"
    /\ parsed' = None
    /\ calls' = <<>>
    /\ visited' = <<>>
    /\ store0' = store
    /\ UNCHANGED <<store, other>>

RepeatNext ==
    \/ workout_parser_node
    \/ workout_reader_node
    \/ RunAgain

RepeatSpec == RepeatInit /\ [][RepeatNext]_vars

\* Runs in which the answers of the parser and of the reader are fixed when
\* run() is entered; the outcomes of the WorkoutCRUD calls stay free.  The
\* parser returns no field, the four required fields, or those with sets 0,
\* and any workout_id; the reader fails, answers in prose, or calls the
\* tool with its defaults.
PathScripts(st) ==
    {[parsed |-> p, query_ok |-> q, llm |-> c[1], read_ok |-> c[2], first |-> None] :
        p \in {r \in ParserResponses(st) :
                /\ r.rest_time = None /\ r.comments = None
                /\ r.exercise # Some("")
                /\ (r.sets = None) = (r.reps = None)
                /\ (r.sets = None) = (r.weight = None)},
        q \in BOOLEAN,
        c \in {d \in ReaderOutcomes \X BOOLEAN :
                /\ d[1].kind = "tool" \/ d[2]
                /\ d[1].user_id = "A"
                /\ d[1].content \in {"", "You have no workouts yet."}
                /\ d[1].args \in {NoArgs, [NoArgs EXCEPT !.limit = Some(10),
                                                        !.order_direction = Some("desc")]}}}

PathInit ==
    /\ store \in InitialStores
    /\ store0 = store
    /\ script \in {Some(x) : x \in PathScripts(store)}
    /\ other = None
    /\ pc = "idle"
    /\ state = WorkoutState("", "A", None)
    /\ parsed = None
    /\ calls = <<>>
    /\ visited = <<>>

\* LangGraph runs a node as soon as the edge into it is taken, and every
\* call of a collaborator returns or raises: a step that can be taken is
\* taken
PathSpec == PathInit /\ [][Next]_vars /\ WF_vars(Next)

\* One request made on two input states that differ only in the fields
\* the parser node assigns.  A WorkoutState reused from an earlier run
\* holds, in exercise, sets, reps, weight, rest_time, comments and
\* workout_id, whatever that run left there.
StaleFields(st) ==
    {WorkoutParserResponse(e, n, n2, w, None, c, i) :
        e \in {None, Some("lunges")},
        n \in {None, Some(3)},
        n2 \in {None},
        w \in {None},
        c \in {None, Some("felt strong")},
        i \in {None, Some(MalformedId)} \cup {Some(st[k].id) : k \in 1..Len(st)}}

\* the state s holding the fields v
with_fields(s, v) ==
    [s EXCEPT
        !.exercise = v.exercise, !.sets = v.sets, !.reps = v.reps,
        !.weight = v.weight, !.rest_time = v.rest_time,
        !.comments = v.comments, !.workout_id = v.workout_id]

\* The answers of the parser and of the reader are fixed for both runs;
\* input is the state of the first run, whose seven fields have their
\* defaults; first is <<>> until the first run has ended, and then its
\* route and its calls.
TwinScripts(st) ==
    {[parsed |-> p, query_ok |-> q, llm |-> c[1], read_ok |-> c[2],
      first |-> None, input |-> s] :
        p \in {r \in ParserResponses(st) :
                /\ r.rest_time = None /\ r.comments = None
                /\ r.exercise \in {None, Some("squats")}
                /\ r.reps = None /\ r.weight = None
                /\ r.sets # Some(0)
                /\ r.workout_id # Some("")} \cup
              {r \in ParserResponses(st) :
                /\ r.rest_time = None /\ r.comments = None
                /\ r.exercise = Some("squats") /\ r.sets = Some(3)
                /\ r.reps = Some(10) /\ r.weight = Some("135 lbs")
                /\ r.workout_id = None},
        q \in BOOLEAN,
        c \in {d \in ReaderOutcomes \X {TRUE} :
                /\ d[1].user_id = "A"
                /\ d[1].content \in {"", "You have no workouts yet."}
                /\ d[1].args \in {NoArgs, [NoArgs EXCEPT !.limit = Some(10),
                                                        !.order_direction = Some("desc")]}},
        s \in {x \in InputStates(st) : x.user_id = "A"}}

\* run() is entered with the first of the two states
TwinInit ==
    /\ store \in InitialStores
    /\ store0 = store
    /\ script \in {Some(x) : x \in TwinScripts(store)}
    /\ other = None
    /\ pc = "workout_parser"
    /\ state = with_fields(script[1].input, WorkoutParserResponse(None, None, None,
                                                                  None, None, None, None))
    /\ parsed = None
    /\ calls = <<>>
    /\ visited = <<>>

\* run() is entered with the second state, against the table as it was
\* when the first run was entered
RunTwin ==
    /\ pc = "END"
    /\ script # None
    /\ script[1].first = None
    /\ script' = Some([script[1] EXCEPT
                        !.first = Some([visited |-> visited, calls |-> calls])])
    /\ \E v \in StaleFields(store0) : state' = with_fields(script[1].input, v)
    /\ store' = store0
    /\ pc' = "workout_parser"
    /\ parsed' = None
    /\ calls' = <<>>
    /\ visited' = <<>>
    /\ UNCHANGED <<store0, other>>

TwinNext ==
    \/ workout_parser_node
    \/ workout_reader_node
    \/ workout_validator_node
    \/ workout_saver_node
    \/ workout_updator_node
    \/ workout_deletor_node
    \/ RunTwin

TwinSpec == TwinInit /\ [][TwinNext]_vars

\* Two requests at the same time.  Each run() owns its WorkoutState; the
\* two share nothing but the table.  A run is suspended between two of its
\* nodes (every node makes at most one WorkoutCRUD call, so this is every
\* interleaving of the calls), and its pc, state, parsed, calls, visited
\* and script wait in other while the other request runs.
Context(p, s, pr, cs, vs, sc) ==
    [pc |-> p, state |-> s, parsed |-> pr, calls |-> cs, visited |-> vs, script |-> sc]

\* a request about to enter run(): its WorkoutState and the answers its
\* collaborators will give
Entering(r) == Context("workout_parser", r.state, None, <<>>, <<>>, Some(r.script))

\* The requests of owner o: a read of the newest rows, a delete, or a "put"
\* with new sets; the delete and the "put" name a row or none.  No request
\* creates a row.  The calls to Supabase made for the parser and the reader
\* succeed.
ConcurrentRequest(o, i, n, w) ==
    [state |-> WorkoutState("utterance", o, i),
     script |-> [parsed |-> WorkoutParserResponse(None, n, None, None, None, None, w),
                 query_ok |-> TRUE,
                 llm |-> [kind |-> "tool", user_id |-> o, content |-> "",
                          args |-> [NoArgs EXCEPT !.limit = Some(10),
                                                  !.order_direction = Some("desc")]],
                 read_ok |-> TRUE,
                 first |-> None]]

ConcurrentRequests(st, o) ==
    LET ids == {None} \cup {Some(st[k].id) : k \in 1..Len(st)}
    IN  {ConcurrentRequest(o, Some("get"), None, None)}
        \cup {ConcurrentRequest(o, Some("delete"), None, w) : w \in ids}
        \cup {ConcurrentRequest(o, Some("put"), Some(0), w) : w \in ids}

finished(p) == p \in {"END", "raised"}

\* what the two requests have led to: the table, the response of each,
\* and whether both ended with every call succeeding
Outcome ==
    LET o == other[1]
        ok(cs) == \A k \in 1..Len(cs) : cs[k].outcome = "ok"
    IN  [store |-> store,
         responses |-> IF o.run = 1
                       THEN <<state.response, o.ctx.state.response>>
                       ELSE <<o.ctx.state.response, state.response>>,
         clean |-> /\ pc = "END" /\ o.ctx.pc = "END"
                   /\ ok(calls) /\ ok(o.ctx.calls)]

\* The two requests are made three times on the same table: the first
\* before the second (phase 1), the second before the first (phase 2),
\* and both at once (phase 3).  serial holds the outcomes of the phases 1
\* and 2.
ConcurrentInit ==
    /\ store \in InitialStores
    /\ store0 = store
    /\ \E r1 \in ConcurrentRequests(store, "A"),
          r2 \in UNION {ConcurrentRequests(store, o) : o \in Owners} :
        /\ pc = Entering(r1).pc
        /\ state = Entering(r1).state
        /\ parsed = Entering(r1).parsed
        /\ calls = Entering(r1).calls
        /\ visited = Entering(r1).visited
        /\ script = Entering(r1).script
        /\ other = Some([run |-> 1, phase |-> 1, ctx |-> Entering(r2),
                         requests |-> <<r1, r2>>, serial |-> <<>>])

\* the running request is suspended and the other one goes on; before
\* phase 3 only once the running request has ended
Switch ==
    /\ other # None
    /\ ~finished(other[1].ctx.pc)
    /\ other[1].phase = 3 \/ finished(pc)
    /\ pc' = other[1].ctx.pc
    /\ state' = other[1].ctx.state
    /\ parsed' = other[1].ctx.parsed
    /\ calls' = other[1].ctx.calls
    /\ visited' = other[1].ctx.visited
    /\ script' = other[1].ctx.script
    /\ other' = Some([other[1] EXCEPT
                        !.run = 3 - @,
                        !.ctx = Context(pc, state, parsed, calls, visited, script)])
    /\ UNCHANGED <<store, store0>>

\* both requests have ended and every call succeeded: their outcome is
\* kept and they are made again, on the table as it was, in the next order
NextPhase ==
    /\ other # None
    /\ other[1].phase < 3
    /\ Outcome.clean
    /\ LET first == IF other[1].phase = 1 THEN 2 ELSE 1
           now == Entering(other[1].requests[first])
       IN  /\ pc' = now.pc
           /\ state' = now.state
           /\ parsed' = now.parsed
           /\ calls' = now.calls
           /\ visited' = now.visited
           /\ script' = now.script
           /\ other' = Some([other[1] EXCEPT
                               !.run = first,
                               !.phase = @ + 1,
                               !.ctx = Entering(other[1].requests[3 - first]),
                               !.serial = Append(@, Outcome)])
    /\ store' = store0
    /\ UNCHANGED store0

ConcurrentNext ==
    \/ workout_parser_node
    \/ workout_reader_node
    \/ workout_validator_node
    \/ workout_updator_node
    \/ workout_deletor_node
    \/ Switch
    \/ NextPhase

ConcurrentSpec == ConcurrentInit /\ [][ConcurrentNext]_vars

----------------------------------------------------------------------------
(* Types *)

TypeOK ==
    /\ pc \in {"idle", "workout_parser", "workout_reader", "workout_validator",
               "workout_saver", "workout_updator", "workout_deletor", "END", "raised"}
    /\ state.user_id \in Owners
    /\ state.intent \in Intents
    /\ Len(store) <= MaxRecords + 1

----------------------------------------------------------------------------
(* Observations used by the properties *)

CallsOf(op) == SelectSeq(calls, LAMBDA c : c.op = op)

NumCalls(op) == Len(CallsOf(op))

Ended == pc = "END"

Ran(node) == node \in Range(visited)

\* the parser node has just run and the edge out of it has been taken
AfterParser == visited = <<"workout_parser">> /\ pc # "raised"

\* a record identifier is absent when it is None or empty
IdAbsent(o) == o = None \/ o = Some("")

\* the four required fields are present and non-empty
FourFields(p) ==
    /\ p.exercise # None /\ p.exercise # Some("")
    /\ p.sets # None
    /\ p.reps # None
    /\ p.weight # None /\ p.weight # Some("")

\* at least one of sets, reps, weight is present
AnyMutable(p) == p.sets # None \/ p.reps # None \/ p.weight # None

RowsOf(st, owner) == SelectSeq(st, LAMBDA r : r.user_id = owner)

OwnerHasRow(st, owner) == RowsOf(st, owner) # <<>>

\* the identifier of the owner's most recently created row
NewestId(st, owner) ==
    LET rows == RowsOf(st, owner)
        newest == CHOOSE r \in Range(rows) :
                    \A q \in Range(rows) : q.created_at <= r.created_at
    IN  newest.id

----------------------------------------------------------------------------
(* The properties *)

\* C1: every run reaches the end of the graph exactly once, and the
\* response in the final state is non-empty.
C1_RunEndsOnceWithResponse ==
    Ended => /\ Count(visited, "END") = 1
             /\ state.response # EmptyResponse

\* C2: the dispatcher is a total function of (intent, record_id present):
\* get -> reader; delete -> deletor; put with a record_id -> updator; every
\* other pair, an unknown or unset intent included, -> validator.  A
\* record_id is present when it is neither None nor empty.
C2_DispatchTable ==
    AfterParser =>
        pc = CASE state.intent = Some("get") -> "workout_reader"
               [] state.intent = Some("delete") -> "workout_deletor"
               [] state.intent = Some("put") /\ ~IdAbsent(state.workout_id) ->
                    "workout_updator"
               [] OTHER -> "workout_validator"

\* C2 witness: a "put" whose record_id is present has been sent to the updator.
C2_Witness ==
    /\ AfterParser
    /\ state.intent = Some("put")
    /\ ~IdAbsent(state.workout_id)
    /\ pc = "workout_updator"

\* C3: a create ("put" with no record_id from the parser) that carries the
\* four required fields calls WorkoutCRUD.create exactly once with those
\* fields and the owner, and calls neither the fallback query nor update,
\* whatever rows the owner already has.
C3_CreateCallsCreateOnce ==
    (/\ Ended
     /\ state.intent = Some("put")
     /\ IdAbsent(parsed[1].workout_id)
     /\ FourFields(parsed[1]))
    => /\ NumCalls("create") = 1
       /\ CallsOf("create")[1].user_id = state.user_id
       /\ CallsOf("create")[1].data.exercise = parsed[1].exercise
       /\ CallsOf("create")[1].data.sets = parsed[1].sets
       /\ CallsOf("create")[1].data.reps = parsed[1].reps
       /\ CallsOf("create")[1].data.weight = parsed[1].weight
       /\ NumCalls("query") = 0
       /\ NumCalls("update") = 0

\* C4: WorkoutCRUD.create is invoked in a run exactly when the validator
\* ran, its verdict is complete and the intent is "put"; it is never invoked
\* twice, after an incomplete verdict, or for another intent.
C4_SaveGate ==
    /\ NumCalls("create") <= 1
    /\ Ended =>
        (NumCalls("create") = 1 <=>
            /\ Ran("workout_validator")
            /\ state.validation_status = Some("complete")
            /\ state.intent = Some("put"))

\* C4 witness: a run through the validator has ended with one create call.
C4_Witness ==
    /\ Ended
    /\ Ran("workout_validator")
    /\ state.validation_status = Some("complete")
    /\ NumCalls("create") = 1

\* C5: a "put" that the validator found incomplete ends with a rejection
\* response that names exactly the missing required fields.
C5_RejectionNamesMissingFields ==
    (/\ Ended
     /\ state.intent = Some("put")
     /\ Ran("workout_validator")
     /\ state.validation_status = Some("incomplete"))
    => /\ state.response.kind # ""
       /\ state.response.names = state.missing_fields

\* C6 as stated: the parser node issues the fallback query if and only if
\* the intent is delete, or the intent is put with record_id absent and one
\* of sets, reps, weight present.
C6_FallbackIffAsStated ==
    AfterParser =>
        (NumCalls("query") >= 1 <=>
            \/ state.intent = Some("delete")
            \/ /\ state.intent = Some("put")
               /\ IdAbsent(parsed[1].workout_id)
               /\ AnyMutable(parsed[1]))

\* C6 amended: the parser node issues the fallback query, once, if and only
\* if the parser returned no record_id and either the intent is delete, or
\* the intent is put and one of sets, reps, weight is present.
C6_FallbackIff ==
    AfterParser =>
        /\ NumCalls("query") <= 1
        /\ NumCalls("query") = 1 <=>
            /\ IdAbsent(parsed[1].workout_id)
            /\ \/ state.intent = Some("delete")
               \/ state.intent = Some("put") /\ AnyMutable(parsed[1])

\* C6 witness: a delete that names its record has left the parser node
\* without a fallback query.
C6_Witness ==
    /\ AfterParser
    /\ state.intent = Some("delete")
    /\ ~IdAbsent(parsed[1].workout_id)
    /\ NumCalls("query") = 0

C8_UpdateWithoutIdRejected ==
    (/\ Ended
     /\ state.intent = Some("put")
     /\ IdAbsent(state.workout_id))
    => /\ state.response = Message("update_id_required")
       /\ NumCalls("update") = 0
       /\ NumCalls("create") = 0

\* C9: a delete whose record_id is still absent after the fallback ends
\* with the 'workout ID is required' response of the deletor, and
\* WorkoutCRUD.delete is never called.
C9_DeleteWithoutIdRejected ==
    (/\ Ended
     /\ state.intent = Some("delete")
     /\ IdAbsent(state.workout_id))
    => /\ state.response = Message("delete_id_required")
       /\ NumCalls("delete") = 0

\* C9 witness: the owner has a row, the fallback query failed, and the run
\* ended without a record_id.
C9_Witness ==
    /\ Ended
    /\ state.intent = Some("delete")
    /\ IdAbsent(state.workout_id)
    /\ OwnerHasRow(store0, state.user_id)
    /\ NumCalls("query") = 1
    /\ CallsOf("query")[1].outcome = "error"
    /\ state.response = Message("delete_id_required")

\* C10: owner isolation.  Every WorkoutCRUD call of a run carries the run's
\* user_id, the rows of every other owner are the same as when the run
\* started, and the response of a read holds only rows of the run's owner.
C10_OwnerIsolation ==
    pc # "idle" =>
        /\ \A i \in 1..Len(calls) : calls[i].user_id = state.user_id
        /\ \A o \in Owners \ {state.user_id} : RowsOf(store, o) = RowsOf(store0, o)
        /\ Ran("workout_reader") =>
            \A i \in 1..Len(state.response.recs) :
                state.response.recs[i].user_id = state.user_id

\* C10 witness: a "put" that named another owner's row called update, and
\* no row matched.
C10_Witness ==
    /\ Ended
    /\ NumCalls("update") = 1
    /\ \E i \in 1..Len(store0) :
        /\ Some(store0[i].id) = parsed[1].workout_id
        /\ store0[i].user_id # state.user_id
    /\ CallsOf("update")[1].outcome = "ok"
    /\ state.response = Message("update_not_found")

\* the parser node ran and WorkoutParser.process raised in it
ProcessFailed == Ran("workout_parser") /\ parsed = None

\* some WorkoutCRUD call of the run met an error of the Supabase client
StoreErrorIn(op) == \E i \in 1..Len(calls) : calls[i].op = op /\ calls[i].outcome = "error"

\* C11: every failure of a collaborator is caught in its node and turned
\* into a response: no run raises to its caller, and a run whose
\* WorkoutParser.process failed ends at END with an apology response.
C11_FailuresBecomeResponses ==
    /\ pc # "raised"
    /\ ProcessFailed => (Ended /\ state.response.kind = "parse_error")

\* C12: when WorkoutParser.process fails the exception leaves run(): the
\* parser node is the only node that ran, no WorkoutCRUD call was made and
\* the table is as it was when the run started.
C12_ExtractorFailurePropagates ==
    ProcessFailed =>
        /\ pc = "raised"
        /\ visited = <<"workout_parser">>
        /\ calls = <<>>
        /\ store = store0

\* C12 witness: process failed in a delete run of an owner who has a row;
\* the run raised before the fallback query or the delete.
C12_Witness ==
    /\ ProcessFailed
    /\ pc = "raised"
    /\ state.intent = Some("delete")
    /\ OwnerHasRow(store, state.user_id)
    /\ calls = <<>>

\* C13: no response holds the text of an exception: on every failure path
\* of the saver, the updator and the deletor the response is a fixed
\* message.
C13_NoExceptionTextInResponse ==
    (Ended /\ (Ran("workout_saver") \/ Ran("workout_updator") \/ Ran("workout_deletor")))
    => state.response.text = ""

\* C14: a run in which a WorkoutCRUD call met an error of the Supabase
\* client ends with the generic message that suggests a retry, which is
\* none of the responses for an empty result, a record not found or a
\* success.
C14_StoreErrorGivesRetryMessage ==
    (Ended /\ \E i \in 1..Len(calls) : calls[i].outcome = "error")
    => state.response \in {Message("read_error"), Message("save_error"),
                           Message("update_error"), Message("delete_error")}

\* the six fields of a workout that a request can carry
SixFields == {"exercise", "sets", "reps", "weight", "rest_time", "comments"}

\* the fields among SixFields that the record p carries (not None)
PresentFields(p) == {f \in SixFields : p[f] # None}

\* the position of x in the sequence order (0 when it is not in it)
PosIn(order, x) ==
    IF \E i \in 1..Len(order) : order[i] = x
    THEN CHOOSE i \in 1..Len(order) : order[i] = x
    ELSE 0

\* seq lists exactly the members of set, each once, in the order of order
ListsInOrder(seq, set, order) ==
    /\ Range(seq) = set
    /\ Len(seq) = Cardinality(set)
    /\ \A i, j \in 1..Len(seq) : i < j => PosIn(order, seq[i]) < PosIn(order, seq[j])

\* the required fields that are absent or empty in the state s: only the
\* text fields can be empty
AbsentRequired(s) ==
    {f \in {"exercise", "weight"} : s[f] = None \/ s[f] = Some("")}
    \cup {f \in {"sets", "reps"} : s[f] = None}

\* C15: the verdict of the validator is complete if and only if exercise,
\* sets, reps and weight are each present and non-empty (an empty string
\* counts as absent, the number 0 as present); otherwise it is incomplete.
C15_VerdictIffFourFields ==
    Ran("workout_validator") =>
        /\ state.validation_status \in {Some("complete"), Some("incomplete")}
        /\ state.validation_status = Some("complete") <=> FourFields(state)

\* C15 witness: the validator ran on an empty weight with the other three
\* fields present, and its verdict is incomplete.
C15_Witness ==
    /\ Ran("workout_validator")
    /\ state.weight = Some("")
    /\ state.exercise = Some("squats")
    /\ state.sets = Some(0)
    /\ state.reps = Some(10)
    /\ state.validation_status = Some("incomplete")

\* C16: after the validator, missing_fields lists exactly the required
\* fields that are absent or empty, each once, in the order exercise, sets,
\* reps, weight, whatever missing_fields the state held before; it is empty
\* exactly when the verdict is complete.
C16_MissingFieldsInOrder ==
    Ran("workout_validator") =>
        /\ ListsInOrder(state.missing_fields, AbsentRequired(state),
                        <<"exercise", "sets", "reps", "weight">>)
        /\ state.missing_fields = <<>> <=> state.validation_status = Some("complete")

\* C16 witness: the validator ran on a state with exercise empty, sets and
\* reps given and no weight, and left exactly exercise and weight, in that
\* order.
C16_Witness ==
    /\ Ran("workout_validator")
    /\ state.exercise = Some("")
    /\ state.sets # None
    /\ state.reps # None
    /\ state.weight = None
    /\ state.missing_fields = <<"exercise", "weight">>

\* the run made one WorkoutCRUD.update call: that call
UpdateCall == CallsOf("update")[1]

\* a row of the table st has this id and this owner
RowOf(st, id, owner) == \E k \in 1..Len(st) : st[k].id = id /\ st[k].user_id = owner

\* C17: the data passed to WorkoutCRUD.update holds exactly the fields the
\* parser returned (not None), each with the value the parser returned, and
\* never another field; every column of every row that the data does not
\* name is as it was when the run started.
C17_UpdatePayloadIsPresentFields ==
    NumCalls("update") >= 1 =>
        /\ NumCalls("update") = 1
        /\ UpdateCall.data.keys = PresentFields(parsed[1])
        /\ \A f \in UpdateCall.data.keys : UpdateCall.data[f] = parsed[1][f]
        /\ Len(store) = Len(store0)
        /\ \A k \in 1..Len(store) :
            \A f \in SixFields \ UpdateCall.data.keys : store[k][f] = store0[k][f]

\* C17 witness: an update that carried only sets changed the owner's row
\* and left its exercise, reps and weight as they were.
C17_Witness ==
    /\ Ended
    /\ NumCalls("update") = 1
    /\ UpdateCall.data.keys = {"sets"}
    /\ UpdateCall.data.sets = Some(0)
    /\ state.response.kind = "updated"
    /\ \E k \in 1..Len(store) :
        /\ Some(store[k].id) = UpdateCall.workout_id
        /\ store[k].sets = Some(0)
        /\ store0[k].sets = Some(3)
        /\ store[k].exercise = store0[k].exercise
        /\ store[k].reps = Some(10)
        /\ store[k].weight = Some("135 lbs")

\* C18: a run through the updator whose state holds a record_id and none of
\* the six fields ends with the 'no fields to update' response, and
\* WorkoutCRUD.update is not called.
C18_EmptyUpdateRejected ==
    (/\ Ended
     /\ Ran("workout_updator")
     /\ ~IdAbsent(state.workout_id)
     /\ PresentFields(state) = {})
    => /\ state.response = Message("update_no_fields")
       /\ NumCalls("update") = 0
       /\ store = store0

\* C18 witness: a "put" that named a row of its owner and no field was
\* rejected by the updator.
C18_Witness ==
    /\ Ended
    /\ Ran("workout_updator")
    /\ RowOf(store0, state.workout_id[1], state.user_id)
    /\ PresentFields(state) = {}
    /\ state.response = Message("update_no_fields")

\* C19: when WorkoutCRUD.update returns a row, the response lists exactly
\* the fields of the update data, each once, in the order sets, reps,
\* weight, exercise, rest_time, comments.
C19_ResponseListsChangedFields ==
    (Ended /\ NumCalls("update") = 1 /\ state.response.kind = "updated")
    => ListsInOrder(state.response.names, UpdateCall.data.keys,
                    <<"sets", "reps", "weight", "exercise", "rest_time", "comments">>)

\* C19 witness: an update of exercise, sets and comments was reported as
\* sets, exercise, comments.
C19_Witness ==
    /\ Ended
    /\ NumCalls("update") = 1
    /\ UpdateCall.data.keys = {"exercise", "sets", "comments"}
    /\ state.response.kind = "updated"
    /\ state.response.names = <<"sets", "exercise", "comments">>

\* C20: when WorkoutCRUD.update matches no row, because no row has the
\* identifier or because the row belongs to another owner, the run ends
\* with the same 'not found or no permission' response; and the updator
\* calls WorkoutCRUD.update for every well-formed identifier and non-empty
\* data without any query of its own: the only other call of such a run is
\* the fallback query of the parser node, made when the parser returned no
\* identifier.
C20_NotFoundOrForbidden ==
    /\ (/\ Ended
        /\ NumCalls("update") = 1
        /\ UpdateCall.outcome = "ok"
        /\ ~RowOf(store0, UpdateCall.workout_id[1], state.user_id))
       => /\ state.response = Message("update_not_found")
          /\ store = store0
    /\ (/\ Ended
        /\ Ran("workout_updator")
        /\ IsUUID(state.workout_id[1])
        /\ PresentFields(state) # {})
       => /\ NumCalls("update") = 1
          /\ UpdateCall.workout_id = state.workout_id
          /\ calls = (IF IdAbsent(parsed[1].workout_id)
                      THEN <<Call("query", state.user_id, None, NoData, "ok")>>
                      ELSE <<>>) \o <<UpdateCall>>

\* C20 witness: a "put" named a row of the other owner with a field to
\* change; update was called with no query before it, matched nothing, and
\* the row is untouched.
C20_Witness ==
    /\ Ended
    /\ NumCalls("update") = 1
    /\ UpdateCall.outcome = "ok"
    /\ \E k \in 1..Len(store0) :
        /\ Some(store0[k].id) = UpdateCall.workout_id
        /\ store0[k].user_id # state.user_id
    /\ NumCalls("query") = 0
    /\ store = store0
    /\ state.response = Message("update_not_found")

\* the run made one WorkoutCRUD.delete call: that call
DeleteCall == CallsOf("delete")[1]

\* C21 as stated: a delete run whose record_id is present reports success
\* whenever the WorkoutCRUD.delete call completes without error, whether or
\* not a row matched, and reports anything else only when that call met an
\* error.
C21_DeleteSuccessAsStated ==
    (Ended /\ Ran("workout_deletor") /\ ~IdAbsent(state.workout_id))
    => /\ (NumCalls("delete") = 1 /\ DeleteCall.outcome = "ok")
            => state.response = Message("deleted")
       /\ state.response # Message("deleted") => StoreErrorIn("delete")

\* C21 amended: a delete run whose record_id is a well-formed identifier
\* calls WorkoutCRUD.delete once; it reports success exactly when the call
\* completes without error, whether or not a row matched, and the 'failed
\* to delete' response exactly when the call met an error.
C21_DeleteSuccess ==
    (Ended /\ Ran("workout_deletor") /\ ~IdAbsent(state.workout_id)
        /\ IsUUID(state.workout_id[1]))
    => /\ NumCalls("delete") = 1
       /\ DeleteCall.workout_id = state.workout_id
       /\ DeleteCall.outcome = "ok" => state.response = Message("deleted")
       /\ DeleteCall.outcome = "error" =>
            (state.response = Message("delete_failed") /\ store = store0)

\* C21 witness: a delete named a row of the other owner; the call completed,
\* removed nothing, and the run reports success.
C21_Witness ==
    /\ Ended
    /\ NumCalls("delete") = 1
    /\ DeleteCall.outcome = "ok"
    /\ \E k \in 1..Len(store0) :
        /\ Some(store0[k].id) = DeleteCall.workout_id
        /\ store0[k].user_id # state.user_id
    /\ store = store0
    /\ state.response = Message("deleted")

\* the run made one WorkoutCRUD.create call: that call
CreateCall == CallsOf("create")[1]

\* C22: when WorkoutCRUD.create returns no row or raises, the run ends with
\* a generic failure response and the table is as it was when the run
\* started.
C22_CreateFailureIsGeneric ==
    (Ended /\ NumCalls("create") = 1 /\ CreateCall.outcome # "ok")
    => /\ state.response \in {Message("save_failed"), Message("save_error")}
       /\ store = store0

\* C23: when WorkoutCRUD.create returns a row, the response echoes the
\* exercise, the sets and reps as '<sets>x<reps>', and the weight that the
\* parser returned in this run, which are also those of the new row.
C23_SavedEchoesFields ==
    (Ended /\ NumCalls("create") = 1 /\ CreateCall.outcome = "ok")
    => /\ state.response.kind = "saved"
       /\ state.response.echo =
            <<parsed[1].exercise, parsed[1].sets, parsed[1].reps, parsed[1].weight>>
       /\ Len(store) = Len(store0) + 1
       /\ state.response.echo =
            <<store[Len(store)].exercise, store[Len(store)].sets,
              store[Len(store)].reps, store[Len(store)].weight>>

\* C23 witness: Scenario A run on a reused state: squats, 3x10, 135 lbs.
C23_Witness ==
    /\ Ended
    /\ NumCalls("create") = 1
    /\ CreateCall.outcome = "ok"
    /\ store0 # <<>>
    /\ state.response =
        Response("saved", "", <<>>,
                 <<Some("squats"), Some(3), Some(10), Some("135 lbs")>>, <<>>)

\* the run is the second run of a repeated request
SecondRun == script # None /\ script[1].first # None

\* C24: a read run is idempotent.  It calls neither create, update nor
\* delete and leaves the table as it was; and when the same read is made
\* again on the unchanged table, with the same answers of the parser and of
\* the reader, on the state the first run returned or on a fresh one, the
\* second run ends with the response of the first.
C24_ReadIdempotent ==
    /\ Ran("workout_reader") =>
        /\ NumCalls("create") = 0
        /\ NumCalls("update") = 0
        /\ NumCalls("delete") = 0
        /\ store = store0
    /\ (SecondRun /\ Ended) => state.response = script[1].first[1]

\* C24 witness: the second run of a read ended with one row in its
\* response, on the state that the first run had left with that row's id.
C24_Witness ==
    /\ SecondRun
    /\ Ended
    /\ Ran("workout_reader")
    /\ Len(state.response.recs) = 1
    /\ state.workout_id = Some(state.response.recs[1].id)
    /\ state.validation_status = None
    /\ state.response = script[1].first[1]

\* C25: when the query of a read returns no row (the owner has none, or the
\* Supabase call met an error), the response is the serialization of an
\* empty list, not an error message, and record_id is the one the parser
\* node left; in every read that reached the query, an empty response leaves
\* record_id as the parser node left it.
C25_EmptyRead ==
    (Ended /\ Ran("workout_reader") /\ NumCalls("query") = 1)
    => /\ state.response.kind = "workouts_json"
       /\ (~OwnerHasRow(store0, state.user_id) \/ StoreErrorIn("query"))
            => state.response = Response("workouts_json", "", <<>>, <<>>, <<>>)
       /\ state.response.recs = <<>> => state.workout_id = parsed[1].workout_id

\* C25 witness: the owner has no row, the other owner has one; the read
\* returned the empty list and kept the record_id the parser had returned.
C25_Witness ==
    /\ Ended
    /\ Ran("workout_reader")
    /\ NumCalls("query") = 1
    /\ CallsOf("query")[1].outcome = "ok"
    /\ ~OwnerHasRow(store0, state.user_id)
    /\ store0 # <<>>
    /\ parsed[1].workout_id = Some(UnknownUUID)
    /\ state.workout_id = Some(UnknownUUID)
    /\ state.response = Response("workouts_json", "", <<>>, <<>>, <<>>)

\* C26: when the fallback is attempted, the parser node issues exactly one
\* query, for the run's owner; on a hit record_id is the owner's newest
\* row, on a miss or an error of the Supabase call it stays absent; no
\* exception leaves the node and the run goes on to the node that the
\* dispatch names.
C26_FallbackOnce ==
    (AfterParser /\ NumCalls("query") >= 1)
    => /\ NumCalls("query") = 1
       /\ CallsOf("query")[1].user_id = state.user_id
       /\ IdAbsent(parsed[1].workout_id)
       /\ IF OwnerHasRow(store0, state.user_id) /\ CallsOf("query")[1].outcome = "ok"
          THEN state.workout_id = Some(NewestId(store0, state.user_id))
          ELSE state.workout_id = parsed[1].workout_id
       /\ pc = (IF state.intent = Some("delete") THEN "workout_deletor"
                ELSE IF IdAbsent(state.workout_id) THEN "workout_validator"
                ELSE "workout_updator")
       /\ store = store0

\* C26 witness: the owner has two rows, the Supabase call of the fallback
\* query of a "put" met an error; record_id stays absent and the run goes
\* on to the validator.
C26_Witness ==
    /\ AfterParser
    /\ NumCalls("query") = 1
    /\ CallsOf("query")[1].outcome = "error"
    /\ Len(RowsOf(store0, state.user_id)) >= 2
    /\ state.intent = Some("put")
    /\ state.workout_id = None
    /\ pc = "workout_validator"

\* C27: WorkoutCRUD.update and WorkoutCRUD.delete are never called with an
\* absent record_id: the identifier of every such call is the one the
\* parser returned in this run or, when the parser returned none, the one
\* the fallback query of this run resolved.
C27_MutationHasRecordId ==
    \A i \in 1..Len(calls) :
        calls[i].op \in {"update", "delete"} =>
            /\ ~IdAbsent(calls[i].workout_id)
            /\ \/ calls[i].workout_id = parsed[1].workout_id
               \/ /\ IdAbsent(parsed[1].workout_id)
                  /\ i = 2
                  /\ calls[1].op = "query"
                  /\ calls[1].outcome = "ok"
                  /\ OwnerHasRow(store0, state.user_id)
                  /\ calls[i].workout_id = Some(NewestId(store0, state.user_id))

\* C27 witness: a "put" with sets and no record_id, on a reused state, was
\* resolved by the fallback to the owner's newest of two rows and updated it.
C27_Witness ==
    /\ Ended
    /\ IdAbsent(parsed[1].workout_id)
    /\ Len(RowsOf(store0, state.user_id)) >= 2
    /\ NumCalls("update") = 1
    /\ UpdateCall.workout_id = Some(NewestId(store0, state.user_id))
    /\ state.response.kind = "updated"

\* the paths of the graph
Paths ==
    {<<"workout_parser", n, "END">> :
        n \in {"workout_reader", "workout_updator", "workout_deletor",
               "workout_validator"}}
    \cup {<<"workout_parser", "workout_validator", "workout_saver", "END">>}

IsPrefix(p, q) == Len(p) <= Len(q) /\ p = SubSeq(q, 1, Len(p))

\* the nodes run so far are the start of a path of the graph, and the run
\* is at the node that comes next on it
OnPath ==
    /\ \E q \in Paths : IsPrefix(visited, q)
    /\ pc \in {"workout_parser", "workout_reader", "workout_updator",
               "workout_deletor", "workout_validator", "workout_saver"}
        => \E q \in Paths : IsPrefix(Append(visited, pc), q)
    /\ Ended <=> (visited # <<>> /\ visited[Len(visited)] = "END")
    /\ pc = "raised" => visited = <<"workout_parser">>

\* C28: every run follows an acyclic path: the parser node first and once,
\* then one of the reader, updator, deletor and validator, the saver at most
\* once and only right after the validator, then the end; no node runs
\* twice; and every run that started ends or raises.
C28_AcyclicPath ==
    /\ [](pc # "idle" => OnPath)
    /\ (pc = "workout_parser") ~> (Ended \/ pc = "raised")

\* C28 witness: the longest path has been run.
C28_Witness ==
    visited = <<"workout_parser", "workout_validator", "workout_saver", "END">>

\* C29: the response a run returns is always written by a terminal node of
\* that run (the reader, the saver, the updator or the deletor), so it is
\* never the response the input state carried in.
C29_ResponseFromTerminalNode ==
    Ended => \/ Ran("workout_reader")
             \/ Ran("workout_saver")
             \/ Ran("workout_updator")
             \/ Ran("workout_deletor")

\* C30: after run() is entered no node changes user_input, user_id or
\* intent: neither the parser node with its fallback, nor the validator, nor
\* a terminal node.
C30_InputsUnchanged ==
    [][pc # "idle" =>
        /\ state'.user_input = state.user_input
        /\ state'.user_id = state.user_id
        /\ state'.intent = state.intent]_vars

\* C30 witness: a "put" of owner B that carried sets went through the
\* parser node, its fallback and the updator, and ended.
C30_Witness ==
    /\ Ended
    /\ Ran("workout_updator")
    /\ NumCalls("query") = 1
    /\ parsed[1].sets # None
    /\ state.intent = Some("put")
    /\ state.user_id = "B"
    /\ state.user_input = "utterance"

\* C31: validation_status and missing_fields are written by the validator
\* node only.  No step of the parser, the reader, the saver, the updator or
\* the deletor changes them, and a run routed to the reader, the updator or
\* the deletor never runs the validator: in such a run they are in the final
\* state what they were in the state run() was called with.
C31_VerdictOnlyOnCreatePath ==
    /\ [][pc \notin {"idle", "workout_validator"}
            => /\ state'.validation_status = state.validation_status
               /\ state'.missing_fields = state.missing_fields]_vars
    /\ []((Ran("workout_reader") \/ Ran("workout_updator") \/ Ran("workout_deletor"))
            => ~Ran("workout_validator"))

\* C31 witness: an update ran on a reused state and ended with the verdict
\* and the missing fields that an earlier run had left in it.
C31_Witness ==
    /\ Ended
    /\ Ran("workout_updator")
    /\ NumCalls("update") = 1
    /\ state.validation_status = Some("incomplete")
    /\ state.missing_fields = <<"sets", "reps", "weight">>

\* the text that WorkoutReader.retrieve returned in this run, when the
\* answers of the collaborators are fixed
ReaderReturned == script # None /\ script[1].llm.kind # "fail"

\* C32: on the read path, record_id becomes the identifier of the first
\* record only when the result of the reader is a non-empty list whose first
\* element has one; for every other result (prose, a JSON object, an empty
\* list, a first element without "id" or that is no object, a text nested
\* too deep to parse) record_id stays as the parser node left it; in every
\* case the response is the result of the reader.
C32_ReaderHintFailsSilently ==
    (Ended /\ Ran("workout_reader") /\ ReaderReturned)
    => IF script[1].llm.kind = "tool"
       THEN /\ state.response.kind = "workouts_json"
            /\ state.workout_id =
                    IF state.response.recs # <<>>
                    THEN Some(state.response.recs[1].id)
                    ELSE parsed[1].workout_id
       ELSE /\ state.response =
                    Response("llm_text", script[1].llm.content, <<>>, <<>>, <<>>)
            /\ state.workout_id =
                    IF script[1].llm.content = "[{\"id\": \"R0\"}]"
                    THEN Some("R0")
                    ELSE parsed[1].workout_id

\* C32 for the texts that json.loads parses or rejects as no JSON
C32_ShallowTexts ==
    (Ended /\ Ran("workout_reader") /\ ReaderReturned
        /\ script[1].llm.content # DeepNesting)
    => C32_ReaderHintFailsSilently

\* the number of create, update and delete calls of the run
Mutating == NumCalls("create") + NumCalls("update") + NumCalls("delete")

\* C33: a run makes at most one create, update or delete call, and none
\* when it ends with the rejection of the updator (identifier required, no
\* fields to update) or of the deletor (identifier required), or after the
\* validator found the workout incomplete.
C33_AtMostOneMutation ==
    /\ Mutating <= 1
    /\ (Ended /\ (Ran("workout_updator") \/ Ran("workout_deletor"))
            /\ state.response \in {Message("update_id_required"),
                                   Message("update_no_fields"),
                                   Message("delete_id_required")})
        => Mutating = 0
    /\ (Ran("workout_validator") /\ state.validation_status = Some("incomplete"))
        => Mutating = 0

\* C33 witness: a "put" that named only the exercise was found incomplete
\* and ended without any call.
C33_Witness ==
    /\ Ended
    /\ Ran("workout_validator")
    /\ state.intent = Some("put")
    /\ parsed[1].exercise = Some("squats")
    /\ state.validation_status = Some("incomplete")
    /\ state.missing_fields = <<"sets", "reps", "weight">>
    /\ Mutating = 0

\* C34: whenever the validator returns complete and the saver runs, the
\* check of create on its required fields passes: the saver never ends
\* with the rejection "missing required fields", whatever the values of
\* the fields, a count of 0 included.
C34_ValidatorAndCreateAgree ==
    (Ended /\ Ran("workout_saver") /\ state.validation_status = Some("complete"))
    => /\ state.response.kind # "cannot_save"
       /\ CreateCall.outcome # "rejected"

\* C37: when the parser returns a record_id that is no well-formed
\* identifier, the updator (with at least one field to update) ends with
\* the "cannot update" response and the deletor with the "cannot delete"
\* response; update and delete are not called, the table is unchanged and
\* the run ends.
C37_MalformedIdRejected ==
    (parsed # None /\ parsed[1].workout_id = Some(MalformedId))
    => /\ (Ran("workout_updator") /\ PresentFields(parsed[1]) # {})
            => /\ Ended
               /\ state.response.kind = "cannot_update"
               /\ NumCalls("update") = 0
               /\ store = store0
       /\ Ran("workout_deletor")
            => /\ Ended
               /\ state.response.kind = "cannot_delete"
               /\ NumCalls("delete") = 0
               /\ store = store0

\* C37 witness: a "put" with new sets for the record "not-a-uuid" of an
\* owner with a row ended with the "cannot update" response and no call.
C37_Witness ==
    /\ Ended
    /\ Ran("workout_updator")
    /\ parsed[1].workout_id = Some(MalformedId)
    /\ parsed[1].sets = Some(3)
    /\ OwnerHasRow(store0, state.user_id)
    /\ state.response.kind = "cannot_update"
    /\ calls = <<>>

\* C38: in a run whose intent is unset or none of "get", "put", "delete",
\* no WorkoutCRUD call is made, whatever the parser returns: no fallback
\* query, no query of the reader, no create, update or delete, also when
\* the four required fields are present and the validator returns complete.
C38_UnknownIntentTouchesNothing ==
    (pc # "idle" /\ state.intent \in {None, Some("chat")})
    => /\ calls = <<>>
       /\ store = store0
       /\ ~Ran("workout_reader")
       /\ ~Ran("workout_saver")
       /\ ~Ran("workout_updator")
       /\ ~Ran("workout_deletor")

\* C38 witness: a run with the intent "chat" in which the parser returned
\* the four required fields and no record_id ended after the validator
\* found the workout complete, without any call.
C38_Witness ==
    /\ Ended
    /\ state.intent = Some("chat")
    /\ FourFields(parsed[1])
    /\ parsed[1].sets = Some(3)
    /\ parsed[1].workout_id = None
    /\ state.validation_status = Some("complete")
    /\ visited = <<"workout_parser", "workout_validator", "END">>
    /\ calls = <<>>

\* the calls of a run as they were issued: without their outcomes
issued(cs) ==
    [k \in 1..Len(cs) |->
        [op |-> cs[k].op, user_id |-> cs[k].user_id,
         workout_id |-> cs[k].workout_id, data |-> cs[k].data]]

\* the run is the second of two runs of one request
TwinRun == script # None /\ script[1].first # None

BothEnded ==
    /\ other # None
    /\ other[1].phase = 3
    /\ Outcome.clean
    /\ other[1].serial[1].clean
    /\ other[1].serial[2].clean

\* C35: two requests that run at the same time, whatever the interleaving
\* of their nodes and calls, leave the table and get the responses of the
\* same two requests made one after the other, in one of the two orders.
C35_Serializable ==
    BothEnded => Outcome \in {other[1].serial[1], other[1].serial[2]}

====
